---------------------------- MODULE Spec2Model ----------------------------
(***************************************************************************)
(* The patient page of Nidaan (apps/web/app/patient/page.tsx): audio       *)
(* capture, the level meter and the visit submission pipeline, as a state  *)
(* machine.  One action per event handler, promise continuation or timer   *)
(* callback of the page.  JavaScript runs every handler to completion, so  *)
(* each action is atomic and the actions interleave at the awaits.         *)
(***************************************************************************)
EXTENDS Integers, Sequences, FiniteSets, TLC

(***************************************************************************)
(* Bounds of the model.                                                    *)
(***************************************************************************)
\* startRecording invocations per behaviour
MaxCaptures == 2
\* uploadAndProcess invocations per behaviour
MaxSubmits == 2
\* duration ticks per capture
MaxTicks == 1
\* the retries parameter of pollProcessingStatus (default 30, line 189),
\* scaled down: the loop body is the same for every i < retries
retries == 3
\* length of the analyser's frequency-bin array (frequencyBinCount)
BinCount == 2
\* languages of LANGUAGES the model lets the user pick
NumLangs == 2
\* startRecording invocations per behaviour of the page with its
\* language menu
MaxLangCaptures == 1

(***************************************************************************)
(* Program constants.                                                      *)
(***************************************************************************)
LANGUAGES == <<"hi-IN", "ta-IN", "te-IN", "mr-IN", "bn-IN", "en-IN">>

LanguageCodes == {LANGUAGES[n] : n \in 1..Len(LANGUAGES)}

VoiceStates == {"idle", "listening", "processing", "speaking", "error"}

\* the byte values the model lets getByteFrequencyData deliver
SampleBytes == {0, 100}

\* the messages a rejected collaborator call may carry ("" : none)
ErrorMessages == {"", "Network Error"}

\* what audioAPI.getProcessingStatus may resolve with; QUEUED stands for
\* any value the switch has no case for
StatusValues == {"TRANSCRIBING", "ANALYZING", "COMPLETED", "FAILED", "QUEUED"}

Sessions == 1..MaxCaptures
Submissions == 1..MaxSubmits

\* history: lang, the language selected when the capture that built the
\* blob began; submitted, whether uploadAndProcess has been called with it
NoBlob == [present |-> FALSE, chunks |-> <<>>, lang |-> "",
           submitted |-> FALSE]

VARIABLES
    \* useState of PatientPage
    voiceState, audioLevel, statusMessage, visitId, processingStage,
    \* useAudioStore
    isRecording, audioBlob, duration, language,
    \* useRef of PatientPage (0 : null)
    mediaRecorderRef, chunksRef, timerRef,
    audioContextRef, analyserRef, animationFrameRef,
    \* one record per startRecording invocation: its promise, stream,
    \* MediaRecorder, interval timer, AudioContext and frame loop, and
    \* (history) the language selected when its recorder started, kept
    \* until its blob is built
    sess,
    \* one record per uploadAndProcess invocation
    sub,
    \* whether PatientPage is mounted
    mounted,
    \* history: whether the level meter is attached
    meter

comp == <<voiceState, audioLevel, statusMessage, visitId, processingStage>>
store == <<isRecording, audioBlob, duration, language>>
refs == <<mediaRecorderRef, chunksRef, timerRef,
          audioContextRef, analyserRef, animationFrameRef>>
vars == <<comp, store, refs, sess, sub, mounted, meter>>

NoSession == [sr |-> "none", stream |-> "none", rec |-> "none",
              stopTask |-> FALSE, timer |-> "none", seconds |-> 0,
              ctx |-> "none", raf |-> "none", lang |-> ""]

\* pc: the call the invocation awaits ("wait": the inter-poll timer);
\* i: the loop counter of pollProcessingStatus; blob, lang, dur: the values
\* of the render the invocation closed over, kept until their last use
\* (createVisit for lang and dur, uploadToS3 for blob).  History: calls (the
\* collaborator calls issued, in order), returned (how many of them
\* resolved), waits, errors (rejected status requests), script (how many
\* responses matched Script so far, -1 once one did not), outcome, failedAt
\* (the setup call that rejected) and message (the message of its error)
NoSubmission == [pc |-> "none", i |-> 0, blob |-> NoBlob, lang |-> "",
                 dur |-> 0, calls |-> <<>>, returned |-> 0, waits |-> 0,
                 errors |-> 0, script |-> 0, outcome |-> "none",
                 failedAt |-> "", message |-> "", resetTimer |-> "none"]

\* the status sequence of the three-poll scenario
Script == <<"TRANSCRIBING", "ANALYZING", "COMPLETED">>

\* a state setter of an unmounted component changes nothing
SetState(old, new) == IF mounted THEN new ELSE old

Min(a, b) == IF a < b THEN a ELSE b

RECURSIVE Sum(_)
Sum(s) == IF s = <<>> THEN 0 ELSE Head(s) + Sum(Tail(s))

(***************************************************************************)
(* The level meter.  Levels are kept exactly, in units of 1 / LevelDen.    *)
(***************************************************************************)
LevelDen == 2 * BinCount

DataArrays == [1..BinCount -> SampleBytes]

\* variant of Level without Math.min
Level_NoClamp(dataArray) == 3 * Sum(dataArray)

\* Math.min(100, average * 1.5), average = sum / length
Level(dataArray) == Min(100 * LevelDen, 3 * Sum(dataArray))

(***************************************************************************)
(* useAudioStore (lib/store).                                              *)
(***************************************************************************)
\* reset(): the recording is dropped, the language kept
reset ==
    /\ isRecording' = FALSE
    /\ audioBlob' = NoBlob
    /\ duration' = 0
    /\ language' = language

(***************************************************************************)
(* Initial state: the page as mounted.                                     *)
(***************************************************************************)
Init ==
    /\ voiceState = "idle"
    /\ audioLevel = 0
    /\ statusMessage = ""
    /\ visitId = 0
    /\ processingStage = ""
    /\ isRecording = FALSE
    /\ audioBlob = NoBlob
    /\ duration = 0
    /\ language = LANGUAGES[1]
    /\ mediaRecorderRef = 0
    /\ chunksRef = <<>>
    /\ timerRef = 0
    /\ audioContextRef = 0
    /\ analyserRef = 0
    /\ animationFrameRef = 0
    /\ sess = [k \in Sessions |-> NoSession]
    /\ sub = [p \in Submissions |-> NoSubmission]
    /\ mounted = TRUE
    /\ meter = "detached"

(***************************************************************************)
(* Audio capture.                                                          *)
(***************************************************************************)
\* the sessions after stopAudioVisualization's cancelAnimationFrame and
\* audioContext.close()
stopAudioVisualization(s) ==
    LET s1 == IF animationFrameRef # 0
              THEN [s EXCEPT ![animationFrameRef].raf =
                        IF @ = "pending" THEN "cancelled" ELSE @]
              ELSE s
    IN  IF audioContextRef # 0
        THEN [s1 EXCEPT ![audioContextRef].ctx = "closed"]
        ELSE s1

\* startRecording up to its await: getUserMedia is requested
startRecording(k) ==
    /\ sess[k].sr = "none"
    /\ \A j \in Sessions : j < k => sess[j].sr # "none"
    /\ sess' = [sess EXCEPT ![k].sr = "awaiting"]

\* startRecording from its await to its end, the stream granted: the
\* recorder starts, the meter attaches (updateLevel runs once), the
\* duration timer is set
StartRecordingGranted(k) ==
    /\ sess[k].sr = "awaiting"
    /\ \E dataArray \in DataArrays :
          audioLevel' = SetState(audioLevel, Level(dataArray))
    /\ sess' = [sess EXCEPT ![k] = [@ EXCEPT !.sr = "started",
                    !.stream = "live", !.rec = "recording",
                    !.timer = "active", !.seconds = 0,
                    !.ctx = "running", !.raf = "pending",
                    !.lang = language]]
    /\ mediaRecorderRef' = k
    /\ chunksRef' = <<>>
    /\ isRecording' = TRUE
    /\ voiceState' = SetState(voiceState, "listening")
    /\ audioContextRef' = k
    /\ analyserRef' = k
    /\ animationFrameRef' = k
    /\ timerRef' = k
    /\ meter' = "attached"
    /\ UNCHANGED <<statusMessage, visitId, processingStage, audioBlob,
                   duration, language, sub, mounted>>

\* the catch block of startRecording
startRecordingCatch ==
    /\ voiceState' = SetState(voiceState, "error")
    /\ statusMessage' = SetState(statusMessage, "Could not access microphone")
    /\ UNCHANGED <<audioLevel, visitId, processingStage, store, refs, sub,
                   mounted, meter>>

\* getUserMedia rejects (permission denied, no device)
StartRecordingDenied(k) ==
    /\ sess[k].sr = "awaiting"
    /\ sess' = [sess EXCEPT ![k].sr = "failed"]
    /\ startRecordingCatch

\* the stream is granted and new MediaRecorder(stream, options) throws
\* (mimeType not supported)
StartRecordingThrows(k) ==
    /\ sess[k].sr = "awaiting"
    /\ sess' = [sess EXCEPT ![k] = [@ EXCEPT !.sr = "failed",
                                             !.stream = "live"]]
    /\ startRecordingCatch

\* stopRecording: whether its guard holds
canStopRecording ==
    /\ mediaRecorderRef # 0
    /\ sess[mediaRecorderRef].rec # "inactive"

\* stopRecording: the sessions after recorder.stop() and clearInterval (the
\* counter of a cleared timer is dead, and is zeroed)
stopRecordingSessions ==
    LET s1 == [sess EXCEPT ![mediaRecorderRef] =
                   [@ EXCEPT !.rec = "inactive", !.stopTask = TRUE]]
    IN  IF timerRef # 0
        THEN [s1 EXCEPT ![timerRef] =
                 [@ EXCEPT !.timer = "cleared", !.seconds = 0]]
        ELSE s1

\* the task MediaRecorder.stop() queues: dataavailable, then stop
RecorderStopped(k) ==
    /\ sess[k].stopTask
    /\ \E size \in {0, 1} :
          LET chunks == IF size > 0 THEN Append(chunksRef, k) ELSE chunksRef
          IN  /\ chunksRef' = chunks
              /\ audioBlob' = [present |-> TRUE, chunks |-> chunks,
                               lang |-> sess[k].lang,
                               submitted |-> FALSE]
    /\ sess' = stopAudioVisualization(
                  [sess EXCEPT ![k] = [@ EXCEPT !.stopTask = FALSE,
                                                !.stream = "ended",
                                                !.lang = ""]])
    /\ audioLevel' = SetState(audioLevel, 0)
    /\ meter' = "detached"
    /\ UNCHANGED <<voiceState, statusMessage, visitId, processingStage,
                   isRecording, duration, language, mediaRecorderRef,
                   timerRef, audioContextRef, analyserRef, animationFrameRef,
                   sub, mounted>>

\* the setInterval callback of startRecording
TimerTick(k) ==
    /\ sess[k].timer = "active"
    /\ sess[k].seconds < MaxTicks
    /\ sess' = [sess EXCEPT ![k].seconds = @ + 1]
    /\ duration' = sess[k].seconds + 1
    /\ UNCHANGED <<comp, isRecording, audioBlob, language, refs, sub,
                   mounted, meter>>

\* variant of updateLevel that ends the capture display on silence
updateLevel_StopsOnSilence(k) ==
    /\ sess[k].raf = "pending"
    /\ \E dataArray \in DataArrays :
          /\ audioLevel' = IF analyserRef # 0
                           THEN SetState(audioLevel, Level(dataArray))
                           ELSE audioLevel
          /\ voiceState' = IF Level(dataArray) = 0
                           THEN SetState(voiceState, "idle")
                           ELSE voiceState
    /\ animationFrameRef' = k
    /\ UNCHANGED <<statusMessage, visitId, processingStage,
                   store, mediaRecorderRef, chunksRef, timerRef,
                   audioContextRef, analyserRef, sess, sub, mounted, meter>>

\* the requestAnimationFrame callback of startAudioVisualization
updateLevel(k) ==
    /\ sess[k].raf = "pending"
    /\ \E dataArray \in DataArrays :
          audioLevel' = IF analyserRef # 0
                        THEN SetState(audioLevel, Level(dataArray))
                        ELSE audioLevel
    /\ animationFrameRef' = k
    /\ UNCHANGED <<voiceState, statusMessage, visitId, processingStage,
                   store, mediaRecorderRef, chunksRef, timerRef,
                   audioContextRef, analyserRef, sess, sub, mounted, meter>>

(***************************************************************************)
(* The orb.                                                                *)
(***************************************************************************)
\* handleOrbClick, voiceState idle
OrbClickIdle(k) ==
    /\ mounted
    /\ voiceState = "idle"
    /\ startRecording(k)
    /\ UNCHANGED <<comp, store, refs, sub, mounted, meter>>

\* handleOrbClick, voiceState listening
OrbClickListening ==
    /\ mounted
    /\ voiceState = "listening"
    /\ IF canStopRecording
       THEN /\ sess' = stopRecordingSessions
            /\ isRecording' = FALSE
            /\ timerRef' = 0
       ELSE UNCHANGED <<sess, isRecording, timerRef>>
    /\ voiceState' = "idle"
    /\ UNCHANGED <<audioLevel, statusMessage, visitId, processingStage,
                   audioBlob, duration, language, mediaRecorderRef, chunksRef,
                   audioContextRef, analyserRef, animationFrameRef, sub,
                   mounted, meter>>

\* variant of OrbClickError without setVoiceState('idle')
OrbClickError_StaysError ==
    /\ mounted
    /\ voiceState = "error"
    /\ reset
    /\ UNCHANGED <<comp, refs, sess, sub, mounted, meter>>

\* handleOrbClick, voiceState error
OrbClickError ==
    /\ mounted
    /\ voiceState = "error"
    /\ voiceState' = "idle"
    /\ reset
    /\ UNCHANGED <<audioLevel, statusMessage, visitId, processingStage,
                   refs, sess, sub, mounted, meter>>

\* the language menu
SelectLanguage(n) ==
    /\ mounted
    /\ language' = LANGUAGES[n]
    /\ UNCHANGED <<comp, isRecording, audioBlob, duration, refs, sess, sub,
                   mounted, meter>>

\* the page is unmounted (logout, navigation); it registers no cleanup
Unmount ==
    /\ mounted
    /\ mounted' = FALSE
    /\ UNCHANGED <<comp, store, refs, sess, sub, meter>>

(***************************************************************************)
(* The submission pipeline.                                                *)
(***************************************************************************)
SetupSteps == <<"createVisit", "getUploadUrl", "uploadToS3", "processAudio">>

SetupCalls == {SetupSteps[n] : n \in 1..Len(SetupSteps)}

\* the Submit and Re-record buttons are rendered
ButtonsShown ==
    /\ mounted
    /\ audioBlob.present
    /\ voiceState = "idle"
    /\ statusMessage = ""

\* uploadAndProcess up to its first await: createVisit is called with the
\* language and duration of the render
uploadAndProcess(p) ==
    /\ audioBlob.present
    /\ voiceState' = SetState(voiceState, "processing")
    /\ processingStage' = SetState(processingStage, "Creating visit record...")
    /\ sub' = [sub EXCEPT ![p] = [NoSubmission EXCEPT
                  !.pc = "createVisit", !.blob = audioBlob,
                  !.lang = language, !.dur = duration,
                  !.calls = <<"createVisit">>]]

\* handleSubmit, from the Submit button
SubmitClick(p) ==
    /\ ButtonsShown
    /\ sub[p].pc = "none"
    /\ \A q \in Submissions : q < p => sub[q].pc # "none"
    /\ audioBlob.present
    /\ uploadAndProcess(p)
    /\ audioBlob' = [audioBlob EXCEPT !.submitted = TRUE]
    /\ UNCHANGED <<audioLevel, statusMessage, visitId, isRecording, duration,
                   language, refs, sess, mounted, meter>>

\* handleReRecord, from the Re-record button
ReRecordClick ==
    /\ ButtonsShown
    /\ reset
    /\ voiceState' = "idle"
    /\ statusMessage' = ""
    /\ UNCHANGED <<audioLevel, visitId, processingStage, refs, sess, sub,
                   mounted, meter>>

\* variant of CreateVisitResolved without setProcessingStage
CreateVisitResolved_NoStage(p) ==
    /\ sub[p].pc = "createVisit"
    /\ visitId' = SetState(visitId, p)
    /\ sub' = [sub EXCEPT ![p] = [@ EXCEPT !.pc = "getUploadUrl",
                  !.returned = @ + 1, !.lang = "", !.dur = 0,
                  !.calls = Append(@, "getUploadUrl")]]
    /\ UNCHANGED <<voiceState, audioLevel, statusMessage, processingStage,
                   store, refs, sess, mounted, meter>>

\* createVisit resolves: the visit id is kept, getUploadUrl is called
CreateVisitResolved(p) ==
    /\ sub[p].pc = "createVisit"
    /\ visitId' = SetState(visitId, p)
    /\ processingStage' = SetState(processingStage, "Uploading audio...")
    /\ sub' = [sub EXCEPT ![p] = [@ EXCEPT !.pc = "getUploadUrl",
                  !.returned = @ + 1, !.lang = "", !.dur = 0,
                  !.calls = Append(@, "getUploadUrl")]]
    /\ UNCHANGED <<voiceState, audioLevel, statusMessage, store, refs, sess,
                   mounted, meter>>

\* variant of GetUploadUrlResolved without the await of uploadToS3:
\* processAudio is called while the upload is outstanding
GetUploadUrlResolved_NoAwait(p) ==
    /\ sub[p].pc = "getUploadUrl"
    /\ sub' = [sub EXCEPT ![p] = [@ EXCEPT !.pc = "processAudio",
                  !.returned = @ + 1, !.blob = NoBlob,
                  !.calls = @ \o <<"uploadToS3", "processAudio">>]]
    /\ UNCHANGED <<comp, store, refs, sess, mounted, meter>>

\* getUploadUrl resolves: uploadToS3 is called with the blob of the render
GetUploadUrlResolved(p) ==
    /\ sub[p].pc = "getUploadUrl"
    /\ sub' = [sub EXCEPT ![p] = [@ EXCEPT !.pc = "uploadToS3",
                  !.returned = @ + 1,
                  !.calls = Append(@, "uploadToS3")]]
    /\ UNCHANGED <<comp, store, refs, sess, mounted, meter>>

\* uploadToS3 resolves: processAudio is called
UploadToS3Resolved(p) ==
    /\ sub[p].pc = "uploadToS3"
    /\ processingStage' = SetState(processingStage, "Starting AI analysis...")
    /\ sub' = [sub EXCEPT ![p] = [@ EXCEPT !.pc = "processAudio",
                  !.returned = @ + 1, !.blob = NoBlob,
                  !.calls = Append(@, "processAudio")]]
    /\ UNCHANGED <<voiceState, audioLevel, statusMessage, visitId, store,
                   refs, sess, mounted, meter>>

\* variant of pollLoop with the loop test i <= retries (one attempt too many)
pollLoop_OffByOne(p, r) ==
    IF r.i <= retries
    THEN /\ sub' = [sub EXCEPT ![p] = [r EXCEPT
                       !.pc = "getProcessingStatus",
                       !.calls = Append(@, "getProcessingStatus")]]
         /\ UNCHANGED <<voiceState, statusMessage>>
    ELSE /\ sub' = [sub EXCEPT ![p] = [r EXCEPT !.pc = "done",
                       !.outcome = "timedOut"]]
         /\ statusMessage' = SetState(statusMessage,
                                "Processing taking longer than expected.")
         /\ voiceState' = SetState(voiceState, "idle")

\* the head of the for loop of pollProcessingStatus, r the invocation with
\* its counter i: the next status request, or the code after the loop
pollLoop(p, r) ==
    IF r.i < retries
    THEN /\ sub' = [sub EXCEPT ![p] = [r EXCEPT
                       !.pc = "getProcessingStatus",
                       !.calls = Append(@, "getProcessingStatus")]]
         /\ UNCHANGED <<voiceState, statusMessage>>
    ELSE /\ sub' = [sub EXCEPT ![p] = [r EXCEPT !.pc = "done",
                       !.outcome = "timedOut"]]
         /\ statusMessage' = SetState(statusMessage,
                                "Processing taking longer than expected.")
         /\ voiceState' = SetState(voiceState, "idle")

\* processAudio resolves: pollProcessingStatus starts
ProcessAudioResolved(p) ==
    /\ sub[p].pc = "processAudio"
    /\ pollLoop(p, [sub[p] EXCEPT !.returned = @ + 1, !.i = 0])
    /\ UNCHANGED <<audioLevel, visitId, processingStage, store, refs, sess,
                   mounted, meter>>

\* variant of SetupRejected without the catch block: the rejection leaves
\* uploadAndProcess, which ends with no outcome
SetupRejected_Uncaught(p, msg) ==
    /\ sub[p].pc \in SetupCalls
    /\ sub' = [sub EXCEPT ![p] = [@ EXCEPT !.pc = "done",
                  !.failedAt = sub[p].pc, !.message = msg,
                  !.blob = NoBlob, !.lang = "", !.dur = 0]]
    /\ UNCHANGED <<comp, store, refs, sess, mounted, meter>>

\* variant of SetupRejected that shows a fixed text, not the error's message
SetupRejected_FixedText(p, msg) ==
    /\ sub[p].pc \in SetupCalls
    /\ voiceState' = SetState(voiceState, "error")
    /\ statusMessage' = SetState(statusMessage, "Upload failed")
    /\ sub' = [sub EXCEPT ![p] = [@ EXCEPT !.pc = "done",
                  !.outcome = "failed", !.failedAt = sub[p].pc,
                  !.message = msg,
                  !.blob = NoBlob, !.lang = "", !.dur = 0]]
    /\ UNCHANGED <<audioLevel, visitId, processingStage, store, refs, sess,
                   mounted, meter>>

\* the catch block of uploadAndProcess: one of the four setup calls rejects
SetupRejected(p, msg) ==
    /\ sub[p].pc \in SetupCalls
    /\ voiceState' = SetState(voiceState, "error")
    /\ statusMessage' = SetState(statusMessage,
                           IF msg # "" THEN msg ELSE "Upload failed")
    /\ sub' = [sub EXCEPT ![p] = [@ EXCEPT !.pc = "done",
                  !.outcome = "failed", !.failedAt = sub[p].pc,
                  !.message = msg,
                  !.blob = NoBlob, !.lang = "", !.dur = 0]]
    /\ UNCHANGED <<audioLevel, visitId, processingStage, store, refs, sess,
                   mounted, meter>>

\* how far the responses so far follow Script
scriptAfter(r, status) ==
    IF r.script >= 0 /\ r.script < Len(Script) /\ Script[r.script + 1] = status
    THEN r.script + 1
    ELSE -1

\* variant of StatusPending whose switch has a default case that fails the
\* submission
StatusPending_DefaultFails(p, status) ==
    /\ sub[p].pc = "getProcessingStatus"
    /\ status \notin {"COMPLETED", "FAILED"}
    /\ IF status \in {"TRANSCRIBING", "ANALYZING"}
       THEN /\ processingStage' =
                  IF status = "TRANSCRIBING"
                  THEN SetState(processingStage, "Transcribing your voice...")
                  ELSE SetState(processingStage, "AI analyzing symptoms...")
            /\ sub' = [sub EXCEPT ![p] = [@ EXCEPT !.pc = "wait",
                          !.returned = @ + 1, !.waits = @ + 1,
                          !.script = scriptAfter(sub[p], status)]]
            /\ UNCHANGED <<voiceState, statusMessage>>
       ELSE /\ voiceState' = SetState(voiceState, "error")
            /\ statusMessage' = SetState(statusMessage,
                                   "Processing failed. Please try again.")
            /\ sub' = [sub EXCEPT ![p] = [@ EXCEPT !.pc = "done",
                          !.returned = @ + 1, !.outcome = "failed",
                          !.script = -1]]
            /\ UNCHANGED processingStage
    /\ UNCHANGED <<audioLevel, visitId, store, refs, sess, mounted, meter>>

\* the switch of pollProcessingStatus on a status without a return, then
\* the 2 s timer is set
StatusPending(p, status) ==
    /\ sub[p].pc = "getProcessingStatus"
    /\ status \notin {"COMPLETED", "FAILED"}
    /\ processingStage' =
          CASE status = "TRANSCRIBING" ->
                  SetState(processingStage, "Transcribing your voice...")
            [] status = "ANALYZING" ->
                  SetState(processingStage, "AI analyzing symptoms...")
            [] OTHER -> processingStage
    /\ sub' = [sub EXCEPT ![p] = [@ EXCEPT !.pc = "wait",
                  !.returned = @ + 1, !.waits = @ + 1,
                  !.script = scriptAfter(sub[p], status)]]
    /\ UNCHANGED <<voiceState, audioLevel, statusMessage, visitId, store,
                   refs, sess, mounted, meter>>

\* variant of StatusCompleted without the return: the loop waits and goes on
StatusCompleted_NoReturn(p) ==
    /\ sub[p].pc = "getProcessingStatus"
    /\ voiceState' = SetState(voiceState, "speaking")
    /\ processingStage' = SetState(processingStage, "Complete!")
    /\ statusMessage' = SetState(statusMessage,
                           "Your doctor will review this shortly")
    /\ sub' = [sub EXCEPT ![p] = [@ EXCEPT !.pc = "wait",
                  !.returned = @ + 1, !.waits = @ + 1,
                  !.script = scriptAfter(sub[p], "COMPLETED"),
                  !.resetTimer = "pending"]]
    /\ UNCHANGED <<audioLevel, visitId, store, refs, sess, mounted, meter>>

\* case 'COMPLETED': the 4 s reset timer is set, the function returns
StatusCompleted(p) ==
    /\ sub[p].pc = "getProcessingStatus"
    /\ voiceState' = SetState(voiceState, "speaking")
    /\ processingStage' = SetState(processingStage, "Complete!")
    /\ statusMessage' = SetState(statusMessage,
                           "Your doctor will review this shortly")
    /\ sub' = [sub EXCEPT ![p] = [@ EXCEPT !.pc = "done",
                  !.returned = @ + 1, !.outcome = "completed",
                  !.script = scriptAfter(sub[p], "COMPLETED"),
                  !.resetTimer = "pending"]]
    /\ UNCHANGED <<audioLevel, visitId, store, refs, sess, mounted, meter>>

\* variant of StatusFailed without the return: the loop waits and goes on
StatusFailed_NoReturn(p) ==
    /\ sub[p].pc = "getProcessingStatus"
    /\ voiceState' = SetState(voiceState, "error")
    /\ statusMessage' = SetState(statusMessage,
                           "Processing failed. Please try again.")
    /\ sub' = [sub EXCEPT ![p] = [@ EXCEPT !.pc = "wait",
                  !.returned = @ + 1, !.waits = @ + 1,
                  !.script = -1]]
    /\ UNCHANGED <<audioLevel, visitId, processingStage, store, refs, sess,
                   mounted, meter>>

\* case 'FAILED': the function returns
StatusFailed(p) ==
    /\ sub[p].pc = "getProcessingStatus"
    /\ voiceState' = SetState(voiceState, "error")
    /\ statusMessage' = SetState(statusMessage,
                           "Processing failed. Please try again.")
    /\ sub' = [sub EXCEPT ![p] = [@ EXCEPT !.pc = "done",
                  !.returned = @ + 1, !.outcome = "failed",
                  !.script = -1]]
    /\ UNCHANGED <<audioLevel, visitId, processingStage, store, refs, sess,
                   mounted, meter>>

\* variant of StatusRejected without the try of the loop: the rejection
\* reaches the catch block of uploadAndProcess
StatusRejected_Propagates(p) ==
    /\ sub[p].pc = "getProcessingStatus"
    /\ voiceState' = SetState(voiceState, "error")
    /\ statusMessage' = SetState(statusMessage, "Upload failed")
    /\ sub' = [sub EXCEPT ![p] = [@ EXCEPT !.pc = "done",
                  !.errors = @ + 1, !.script = -1, !.outcome = "failed"]]
    /\ UNCHANGED <<audioLevel, visitId, processingStage, store, refs, sess,
                   mounted, meter>>

\* variant of StatusRejected that repeats the attempt (the counter is not
\* advanced)
StatusRejected_Repeats(p) ==
    /\ sub[p].pc = "getProcessingStatus"
    /\ pollLoop(p, [sub[p] EXCEPT !.errors = @ + 1, !.script = -1])
    /\ UNCHANGED <<audioLevel, visitId, processingStage, store, refs, sess,
                   mounted, meter>>

\* getProcessingStatus rejects: the catch block of the loop logs, and the
\* loop goes on without waiting
StatusRejected(p) ==
    /\ sub[p].pc = "getProcessingStatus"
    /\ pollLoop(p, [sub[p] EXCEPT !.errors = @ + 1, !.script = -1,
                                  !.i = @ + 1])
    /\ UNCHANGED <<audioLevel, visitId, processingStage, store, refs, sess,
                   mounted, meter>>

\* the 2 s timer of the loop fires: the next iteration
WaitElapsed(p) ==
    /\ sub[p].pc = "wait"
    /\ pollLoop(p, [sub[p] EXCEPT !.i = @ + 1])
    /\ UNCHANGED <<audioLevel, visitId, processingStage, store, refs, sess,
                   mounted, meter>>

\* the 4 s timer set on COMPLETED fires
ResetTimerFired(p) ==
    /\ sub[p].resetTimer = "pending"
    /\ voiceState' = SetState(voiceState, "idle")
    /\ reset
    /\ visitId' = SetState(visitId, 0)
    /\ processingStage' = SetState(processingStage, "")
    /\ statusMessage' = SetState(statusMessage, "")
    /\ sub' = [sub EXCEPT ![p].resetTimer = "fired"]
    /\ UNCHANGED <<audioLevel, refs, sess, mounted, meter>>

(***************************************************************************)
(* The page.                                                               *)
(***************************************************************************)
Next ==
    \/ \E k \in Sessions : OrbClickIdle(k)
    \/ OrbClickListening
    \/ OrbClickError
    \/ \E k \in Sessions : StartRecordingGranted(k)
    \/ \E k \in Sessions : StartRecordingDenied(k)
    \/ \E k \in Sessions : StartRecordingThrows(k)
    \/ \E k \in Sessions : RecorderStopped(k)
    \/ \E k \in Sessions : TimerTick(k)
    \/ \E k \in Sessions : updateLevel(k)
    \/ \E p \in Submissions : SubmitClick(p)
    \/ ReRecordClick
    \/ \E p \in Submissions : CreateVisitResolved(p)
    \/ \E p \in Submissions : GetUploadUrlResolved(p)
    \/ \E p \in Submissions : UploadToS3Resolved(p)
    \/ \E p \in Submissions : ProcessAudioResolved(p)
    \/ \E p \in Submissions, msg \in ErrorMessages : SetupRejected(p, msg)
    \/ \E p \in Submissions, status \in StatusValues : StatusPending(p, status)
    \/ \E p \in Submissions : StatusCompleted(p)
    \/ \E p \in Submissions : StatusFailed(p)
    \/ \E p \in Submissions : StatusRejected(p)
    \/ \E p \in Submissions : WaitElapsed(p)
    \/ \E p \in Submissions : ResetTimerFired(p)

Spec == Init /\ [][Next]_vars


\* one step of invocation p: a collaborator call of it resolves or
\* rejects, or a timer of it fires
PipelineStep(p) ==
    \/ CreateVisitResolved(p)
    \/ GetUploadUrlResolved(p)
    \/ UploadToS3Resolved(p)
    \/ ProcessAudioResolved(p)
    \/ \E msg \in ErrorMessages : SetupRejected(p, msg)
    \/ \E status \in StatusValues : StatusPending(p, status)
    \/ StatusCompleted(p)
    \/ StatusFailed(p)
    \/ StatusRejected(p)
    \/ WaitElapsed(p)

\* the page without the frames of the level meter and the ticks of the
\* duration timer, which no step of the pipeline reads
NextPipeline ==
    \/ \E k \in Sessions : OrbClickIdle(k)
    \/ OrbClickListening
    \/ OrbClickError
    \/ \E k \in Sessions : StartRecordingGranted(k)
    \/ \E k \in Sessions : StartRecordingDenied(k)
    \/ \E k \in Sessions : StartRecordingThrows(k)
    \/ \E k \in Sessions : RecorderStopped(k)
    \/ \E p \in Submissions : SubmitClick(p)
    \/ ReRecordClick
    \/ \E p \in Submissions : CreateVisitResolved(p)
    \/ \E p \in Submissions : GetUploadUrlResolved(p)
    \/ \E p \in Submissions : UploadToS3Resolved(p)
    \/ \E p \in Submissions : ProcessAudioResolved(p)
    \/ \E p \in Submissions, msg \in ErrorMessages : SetupRejected(p, msg)
    \/ \E p \in Submissions, status \in StatusValues : StatusPending(p, status)
    \/ \E p \in Submissions : StatusCompleted(p)
    \/ \E p \in Submissions : StatusFailed(p)
    \/ \E p \in Submissions : StatusRejected(p)
    \/ \E p \in Submissions : WaitElapsed(p)
    \/ \E p \in Submissions : ResetTimerFired(p)

\* every collaborator call returns or fails in the end, and every timer
\* that is set fires
FairSpec ==
    /\ Init
    /\ [][NextPipeline]_vars
    /\ \A p \in Submissions : WF_vars(PipelineStep(p))


\* the page with its language menu, the user recording at most
\* MaxLangCaptures times
NextLanguage ==
    \/ \E n \in 1..NumLangs : SelectLanguage(n)
    \/ \E k \in 1..MaxLangCaptures : OrbClickIdle(k)
    \/ OrbClickListening
    \/ OrbClickError
    \/ \E k \in Sessions : StartRecordingGranted(k)
    \/ \E k \in Sessions : StartRecordingDenied(k)
    \/ \E k \in Sessions : StartRecordingThrows(k)
    \/ \E k \in Sessions : RecorderStopped(k)
    \/ \E k \in Sessions : TimerTick(k)
    \/ \E k \in Sessions : updateLevel(k)
    \/ \E p \in Submissions : SubmitClick(p)
    \/ ReRecordClick
    \/ \E p \in Submissions : CreateVisitResolved(p)
    \/ \E p \in Submissions : GetUploadUrlResolved(p)
    \/ \E p \in Submissions : UploadToS3Resolved(p)
    \/ \E p \in Submissions : ProcessAudioResolved(p)
    \/ \E p \in Submissions, msg \in ErrorMessages : SetupRejected(p, msg)
    \/ \E p \in Submissions, status \in StatusValues : StatusPending(p, status)
    \/ \E p \in Submissions : StatusCompleted(p)
    \/ \E p \in Submissions : StatusFailed(p)
    \/ \E p \in Submissions : StatusRejected(p)
    \/ \E p \in Submissions : WaitElapsed(p)
    \/ \E p \in Submissions : ResetTimerFired(p)

SpecLanguage == Init /\ [][NextLanguage]_vars

\* that page with its teardown
NextTeardown ==
    \/ NextLanguage
    \/ Unmount

SpecTeardown == Init /\ [][NextTeardown]_vars

(***************************************************************************)
(* History read by the properties.                                         *)
(***************************************************************************)
\* how many times invocation record r called collaborator c
NumCalls(r, c) == Cardinality({n \in DOMAIN r.calls : r.calls[n] = c})

StatusRequests(p) == NumCalls(sub[p], "getProcessingStatus")

\* the order the pipeline is to call its collaborators in
CallOrder(n) == IF n <= Len(SetupSteps) THEN SetupSteps[n]
                ELSE "getProcessingStatus"

\* a call of invocation p is outstanding
Outstanding(p) == sub[p].pc \in SetupCalls \cup {"getProcessingStatus"}

Terminal == {"completed", "failed", "timedOut"}

\* the stage of the pipeline invocation record r is in
Stage(r) ==
    CASE r.pc = "none" -> "idle"
      [] r.pc = "createVisit" -> "creatingVisit"
      [] r.pc = "getUploadUrl" -> "requestingUploadTarget"
      [] r.pc = "uploadToS3" -> "uploading"
      [] r.pc = "processAudio" -> "requestingProcessing"
      [] r.pc \in {"getProcessingStatus", "wait"} -> "polling"
      [] OTHER -> r.outcome

\* the entry of invocation p into stage s
Enters(p, s) == Stage(sub[p]) # s /\ Stage(sub[p])' = s

\* invocation p of uploadAndProcess has started and has not ended
InFlight(p) == sub[p].pc \notin {"none", "done"}

\* the statuses the switch of pollProcessingStatus has no case for
UnknownStatuses ==
    StatusValues \ {"TRANSCRIBING", "ANALYZING", "COMPLETED", "FAILED"}

(***************************************************************************)
(* C1.  A submit whose recording is empty (built from zero chunks) or      *)
(* whose language is not one of the six of LANGUAGES is rejected before    *)
(* any collaborator is called: createVisit is never outstanding for such a *)
(* recording or language.                                                  *)
(***************************************************************************)
C1_InvalidSubmitMakesNoCall ==
    \A p \in Submissions :
        sub[p].pc = "createVisit" =>
            /\ sub[p].blob.chunks # <<>>
            /\ sub[p].lang \in LanguageCodes

(***************************************************************************)
(* C2.  When the four setup calls resolve and the status source answers    *)
(* TRANSCRIBING, ANALYZING, COMPLETED, the invocation has ended completed  *)
(* with exactly 3 status requests and 2 inter-poll waits, and issues no    *)
(* request after the COMPLETED one.                                        *)
(***************************************************************************)
C2_ThreePollsTwoWaits ==
    \A p \in Submissions :
        sub[p].script = Len(Script) =>
            /\ sub[p].pc = "done"
            /\ sub[p].outcome = "completed"
            /\ StatusRequests(p) = 3
            /\ sub[p].waits = 2
            /\ sub[p].calls[Len(sub[p].calls)] = "getProcessingStatus"
            /\ Len(sub[p].calls) = Len(SetupSteps) + 3

C2_Witness ==
    \E p \in Submissions :
        /\ sub[p].script = Len(Script)
        /\ sub[p].outcome = "completed"
        /\ sub[p].waits = 2

(***************************************************************************)
(* C3.  A poll loop whose status source never answers COMPLETED or FAILED  *)
(* (every resolved request was followed by a wait) ends after exactly      *)
(* retries status requests with the outcome timedOut, never failed; the    *)
(* step that ends it shows the 'taking longer than expected' message and   *)
(* the idle orb.                                                           *)
(***************************************************************************)
NoTerminalStatus(r) ==
    /\ NumCalls(r, "getProcessingStatus") > 0
    /\ r.returned = Len(SetupSteps) + r.waits

C3_ExhaustedPollTimesOut ==
    /\ [](\A p \in Submissions :
            /\ NoTerminalStatus(sub[p]) => StatusRequests(p) <= retries
            /\ (sub[p].pc = "done" /\ NoTerminalStatus(sub[p])) =>
                  /\ sub[p].outcome = "timedOut"
                  /\ StatusRequests(p) = retries
                  /\ sub[p].waits + sub[p].errors = retries
            /\ sub[p].outcome = "timedOut" =>
                  /\ NoTerminalStatus(sub[p])
                  /\ StatusRequests(p) = retries)
    /\ [][\A p \in Submissions :
            (sub[p].outcome = "none" /\ sub'[p].outcome = "timedOut") =>
                /\ statusMessage' = "Processing taking longer than expected."
                /\ voiceState' = "idle"]_vars

C3_Witness ==
    \E p \in Submissions :
        /\ sub[p].outcome = "timedOut"
        /\ StatusRequests(p) = retries
        /\ sub[p].waits > 0

(***************************************************************************)
(* C4.  A status request that rejects does not end the poll loop and does  *)
(* not fail the submission: the next request is issued while attempts are  *)
(* left (the loop times out when none is), the orb does not turn to error, *)
(* and an invocation that saw a rejection fails only on a FAILED status.   *)
(***************************************************************************)
C4_PollErrorSwallowed ==
    /\ [][\A p \in Submissions :
            sub'[p].errors > sub[p].errors =>
                /\ sub'[p].outcome # "failed"
                /\ IF sub[p].i + 1 < retries
                   THEN /\ sub'[p].pc = "getProcessingStatus"
                        /\ sub'[p].outcome = "none"
                        /\ voiceState' = voiceState
                        /\ statusMessage' = statusMessage
                   ELSE /\ sub'[p].pc = "done"
                        /\ sub'[p].outcome = "timedOut"]_vars
    /\ [](\A p \in Submissions :
            (sub[p].errors > 0 /\ sub[p].outcome = "failed") =>
                /\ sub[p].failedAt = ""
                /\ sub[p].returned = Len(SetupSteps) + sub[p].waits + 1)

C4_Witness ==
    \E p \in Submissions :
        /\ sub[p].errors > 0
        /\ sub[p].outcome = "completed"

(***************************************************************************)
(* C5.  When one of createVisit, getUploadUrl, uploadToS3, processAudio    *)
(* rejects, the invocation ends failed with the orb in error and the       *)
(* message of that error shown ('Upload failed' when it has none); the     *)
(* call is not repeated and no later collaborator is ever called.          *)
(***************************************************************************)
Shown(msg) == IF msg # "" THEN msg ELSE "Upload failed"

C5_SetupFailureIsFinal ==
    /\ [](\A p \in Submissions :
            sub[p].failedAt # "" =>
                /\ sub[p].pc = "done"
                /\ sub[p].outcome = "failed"
                /\ sub[p].calls[Len(sub[p].calls)] = sub[p].failedAt
                /\ \A n \in DOMAIN sub[p].calls :
                      sub[p].calls[n] = SetupSteps[n]
                /\ Len(sub[p].calls) = sub[p].returned + 1
                /\ StatusRequests(p) = 0)
    /\ [][\A p \in Submissions :
            (sub[p].failedAt = "" /\ sub'[p].failedAt # "") =>
                /\ sub'[p].failedAt = sub[p].pc
                /\ voiceState' = "error"
                /\ statusMessage' = Shown(sub'[p].message)]_vars

C5_Witness ==
    \E p \in Submissions :
        /\ sub[p].failedAt = "uploadToS3"
        /\ sub[p].message # ""
        /\ sub[p].outcome = "failed"
        /\ statusMessage = sub[p].message

(***************************************************************************)
(* C6.  Every invocation of uploadAndProcess ends, given that every call   *)
(* returns or fails and every timer fires, and it ends with exactly one of *)
(* completed, failed, timedOut: it has an outcome exactly when it has      *)
(* ended, and its outcome never changes.  (An invocation that has started  *)
(* stays in flight until it ends, so that whenever one is in flight a      *)
(* state follows in which none is says that each of them ends.)            *)
(***************************************************************************)
C6_OneTerminalOutcome ==
    /\ (\E p \in Submissions : InFlight(p))
          ~> (\A p \in Submissions : ~InFlight(p))
    /\ [](\A p \in Submissions :
            IF sub[p].pc = "done"
            THEN sub[p].outcome \in Terminal
            ELSE sub[p].outcome = "none")
    /\ [][\A p \in Submissions :
            sub[p].outcome # "none" => sub'[p].outcome = sub[p].outcome]_vars

C6_Witness ==
    /\ \E p \in Submissions : sub[p].outcome = "completed"
    /\ \E p \in Submissions : sub[p].outcome = "failed"

(***************************************************************************)
(* C7, as stated.  The calls of an invocation are issued in the order      *)
(* createVisit, getUploadUrl, uploadToS3, processAudio,                    *)
(* getProcessingStatus*, and each one only after the call before it has    *)
(* resolved: every call but the latest has resolved.                       *)
(***************************************************************************)
InCallOrder(p) == \A n \in DOMAIN sub[p].calls : sub[p].calls[n] = CallOrder(n)

C7_EachCallAfterSuccess ==
    \A p \in Submissions :
        /\ InCallOrder(p)
        /\ Len(sub[p].calls) <= sub[p].returned + 1

(***************************************************************************)
(* C7, amended.  The calls are issued in that order; each setup call and   *)
(* the first status request is issued only after the call before it has    *)
(* resolved; a later status request is issued only after the request       *)
(* before it has resolved or rejected; every call issued has resolved or   *)
(* rejected, but for at most one, which is outstanding.                    *)
(***************************************************************************)
C7_CallsInOrderOneAtATime ==
    \A p \in Submissions :
        /\ InCallOrder(p)
        /\ \A n \in DOMAIN sub[p].calls :
              (n > 1 /\ n <= Len(SetupSteps) + 1) => sub[p].returned >= n - 1
        /\ Len(sub[p].calls) =
              sub[p].returned + sub[p].errors
                + (IF sub[p].failedAt # "" THEN 1 ELSE 0)
                + (IF Outstanding(p) THEN 1 ELSE 0)

C7_Witness ==
    \E p \in Submissions :
        /\ sub[p].errors > 0
        /\ sub[p].pc = "getProcessingStatus"
        /\ Len(sub[p].calls) > sub[p].returned + 1

(***************************************************************************)
(* C8.  Once the page is torn down while a poll loop is in its inter-poll  *)
(* wait, the loop issues no further status request.                        *)
(***************************************************************************)
C8_NoRequestAfterTeardown ==
    [][\A p \in Submissions :
          (~mounted /\ sub[p].pc = "wait") =>
              sub'[p].calls = sub[p].calls]_vars

(***************************************************************************)
(* C9.  After stopAudioVisualization has run, and until the meter is       *)
(* attached again, the sampling loop publishes no level: the level stays 0.*)
(***************************************************************************)
C9_DetachedMeterStaysSilent ==
    meter = "detached" => audioLevel = 0

(***************************************************************************)
(* C10.  A microphone stream is open only while its capture is active:     *)
(* its recorder is recording, or has been stopped and its stop event is    *)
(* still to come.                                                          *)
(***************************************************************************)
C10_OpenStreamHasCapture ==
    \A k \in Sessions :
        sess[k].stream = "live" =>
            \/ sess[k].rec = "recording"
            \/ sess[k].stopTask


(***************************************************************************)
(* C11.  The sampling loop of the level meter runs, and its audio context  *)
(* is open, only while the page is mounted and the capture that started    *)
(* them is active: its recorder is recording, or has been stopped and its  *)
(* stop event is still to come.                                            *)
(***************************************************************************)
C11_MeterRunsOnlyDuringCapture ==
    \A k \in Sessions :
        (sess[k].raf = "pending" \/ sess[k].ctx = "running") =>
            /\ mounted
            /\ \/ sess[k].rec = "recording"
               \/ sess[k].stopTask

(***************************************************************************)
(* C12.  A COMPLETED status ends pollProcessingStatus with the outcome     *)
(* completed and a FAILED status ends it with the outcome failed; the step *)
(* that handles either sets no inter-poll timer and issues no request, and *)
(* an invocation that has ended waits no more and calls nothing more.      *)
(***************************************************************************)
C12_TerminalStatusEndsPolling ==
    /\ [][\A p \in Submissions :
            StatusCompleted(p) =>
                /\ sub'[p].pc = "done"
                /\ sub'[p].outcome = "completed"
                /\ sub'[p].waits = sub[p].waits
                /\ sub'[p].calls = sub[p].calls]_vars
    /\ [][\A p \in Submissions :
            StatusFailed(p) =>
                /\ sub'[p].pc = "done"
                /\ sub'[p].outcome = "failed"
                /\ sub'[p].waits = sub[p].waits
                /\ sub'[p].calls = sub[p].calls]_vars
    /\ [][\A p \in Submissions :
            sub[p].pc = "done" =>
                /\ sub'[p].pc = "done"
                /\ sub'[p].waits = sub[p].waits
                /\ sub'[p].calls = sub[p].calls]_vars

C12_Witness ==
    \E p, q \in Submissions :
        /\ sub[p].outcome = "completed"
        /\ sub[q].outcome = "failed"
        /\ sub[q].failedAt = ""
        /\ sub[q].waits > 0

(***************************************************************************)
(* C13.  A status the switch has no case for is not terminal: the step     *)
(* that handles it changes neither the stage text, the orb nor the status  *)
(* message, gives the invocation no outcome and sets the inter-poll timer; *)
(* when the timer fires the next request is issued while attempts are      *)
(* left, and the loop times out when none is.                              *)
(***************************************************************************)
C13_UnknownStatusKeepsPolling ==
    /\ [][\A p \in Submissions, status \in UnknownStatuses :
            StatusPending(p, status) =>
                /\ processingStage' = processingStage
                /\ voiceState' = voiceState
                /\ statusMessage' = statusMessage
                /\ sub'[p].outcome = "none"
                /\ sub'[p].pc = "wait"
                /\ sub'[p].waits = sub[p].waits + 1
                /\ sub'[p].calls = sub[p].calls]_vars
    /\ [][\A p \in Submissions :
            (sub[p].pc = "wait" /\ sub'[p] # sub[p]) =>
                IF sub[p].i + 1 < retries
                THEN /\ sub'[p].pc = "getProcessingStatus"
                     /\ sub'[p].calls =
                           Append(sub[p].calls, "getProcessingStatus")
                     /\ sub'[p].outcome = "none"
                ELSE /\ sub'[p].pc = "done"
                     /\ sub'[p].outcome = "timedOut"]_vars

\* the first status of an invocation has left the stage text of
\* processAudio in place: it was one the switch has no case for
C13_Witness ==
    \E p \in Submissions :
        /\ sub[p].pc = "getProcessingStatus"
        /\ sub[p].waits = 1
        /\ sub[p].errors = 0
        /\ sub[p].script = -1
        /\ processingStage = "Starting AI analysis..."

(***************************************************************************)
(* C14.  Between every two consecutive status requests of a poll loop      *)
(* there is exactly one inter-poll wait, whatever became of the earlier    *)
(* request: a loop that has issued n requests has waited n - 1 times, or n *)
(* times once the wait after its latest response has begun.                *)
(***************************************************************************)
C14_OneWaitBetweenRequests ==
    \A p \in Submissions :
        StatusRequests(p) > 0 =>
            \/ sub[p].waits = StatusRequests(p) - 1
            \/ /\ sub[p].waits = StatusRequests(p)
               /\ sub[p].pc \in {"wait", "done"}

(***************************************************************************)
(* C15.  A poll loop never issues more than retries status requests,       *)
(* whatever statuses and rejections it meets: while it runs it has issued  *)
(* one request more than its counter i, and a rejected request advances    *)
(* the counter by one like any other.                                      *)
(***************************************************************************)
C15_RequestsWithinBudget ==
    /\ [](\A p \in Submissions :
            /\ StatusRequests(p) <= retries
            /\ sub[p].errors <= StatusRequests(p)
            /\ sub[p].pc \in {"getProcessingStatus", "wait"} =>
                  /\ sub[p].i < retries
                  /\ StatusRequests(p) = sub[p].i + 1)
    /\ [][\A p \in Submissions :
            sub'[p].errors > sub[p].errors =>
                /\ sub'[p].errors = sub[p].errors + 1
                /\ sub'[p].i = sub[p].i + 1
                /\ StatusRequests(p)' <= retries]_vars

C15_Witness ==
    \E p \in Submissions :
        /\ sub[p].errors > 0
        /\ sub[p].waits > 0
        /\ StatusRequests(p) = retries
        /\ sub[p].pc = "done"

C17_OneSubmissionInFlight ==
    /\ [](\A p, q \in Submissions :
            (InFlight(p) /\ InFlight(q)) => p = q)
    /\ [][\A k \in Sessions :
            (sess[k].rec # "recording" /\ sess'[k].rec = "recording") =>
                \A p \in Submissions : ~InFlight(p)]_vars

(***************************************************************************)
(* C18.  Every level the meter publishes lies in [0, 100] (in units of     *)
(* 1 / LevelDen): for every content of the bin array, bytes up to 255, the *)
(* sample is mean * 1.5 where that is at most 100 and 100 where it is      *)
(* more; a step that changes the level sets it to such a sample or to 0,   *)
(* and the detach of the meter sets it to 0.                               *)
(***************************************************************************)
C18_LevelWithinRange ==
    /\ \A d \in [1..BinCount -> {0, 1, 66, 67, 100, 255}] :
          /\ Level(d) \in 0..(100 * LevelDen)
          /\ Level(d) = IF 3 * Sum(d) <= 100 * LevelDen
                        THEN 3 * Sum(d)
                        ELSE 100 * LevelDen
    /\ [](audioLevel \in 0..(100 * LevelDen))
    /\ [][audioLevel' # audioLevel =>
            \/ audioLevel' = 0
            \/ \E d \in DataArrays :
                  audioLevel' = Min(100 * LevelDen, 3 * Sum(d))]_vars
    /\ [][\A k \in Sessions :
            RecorderStopped(k) => audioLevel' = 0]_vars

\* a sample above 100 has been published, clamped
C18_Witness ==
    /\ meter = "attached"
    /\ audioLevel = 100 * LevelDen
    /\ \E d \in DataArrays : 3 * Sum(d) > 100 * LevelDen

(***************************************************************************)
(* C19.  A startRecording whose getUserMedia rejects starts no recorder,   *)
(* no duration timer and no level meter and touches no ref; it leaves the  *)
(* orb in error.  From there the user can start over: the orb in error can *)
(* be clicked and turns idle, the idle orb can be clicked and calls        *)
(* startRecording, and a startRecording whose microphone is granted begins *)
(* a capture with recorder, timer and meter running.                       *)
(***************************************************************************)
C19_DeniedCaptureCanRetry ==
    /\ [](\A k \in Sessions :
            /\ (sess[k].sr = "failed" /\ sess[k].stream = "none") =>
                  sess[k] = [NoSession EXCEPT !.sr = "failed"]
            /\ sess[k].sr = "awaiting" => ENABLED StartRecordingGranted(k))
    /\ []((mounted /\ voiceState = "error") => ENABLED OrbClickError)
    /\ []((mounted /\ voiceState = "idle"
              /\ \E k \in Sessions : sess[k].sr = "none") =>
            ENABLED (\E k \in Sessions : OrbClickIdle(k)))
    /\ [][\A k \in Sessions :
            StartRecordingDenied(k) =>
                /\ voiceState' = "error"
                /\ UNCHANGED <<refs, isRecording, meter>>]_vars
    /\ [][OrbClickError => voiceState' = "idle"]_vars
    /\ [][\A k \in Sessions :
            OrbClickIdle(k) => sess'[k].sr = "awaiting"]_vars
    /\ [][\A k \in Sessions :
            StartRecordingGranted(k) =>
                /\ sess'[k] = [NoSession EXCEPT !.sr = "started",
                                  !.stream = "live", !.rec = "recording",
                                  !.timer = "active", !.ctx = "running",
                                  !.raf = "pending", !.lang = language]
                /\ voiceState' = "listening"
                /\ isRecording'
                /\ mediaRecorderRef' = k]_vars

\* a capture runs after an earlier startRecording was denied the microphone
C19_Witness ==
    \E j, k \in Sessions :
        /\ j < k
        /\ sess[j] = [NoSession EXCEPT !.sr = "failed"]
        /\ sess[k].sr = "started"
        /\ sess[k].rec = "recording"
        /\ voiceState = "listening"

(***************************************************************************)
(* C20.  The language_code an invocation passes to createVisit is the      *)
(* language that was selected when the capture of the submitted recording  *)
(* began.                                                                  *)
(***************************************************************************)
C20_LanguageOfCapture ==
    \A p \in Submissions :
        sub[p].pc = "createVisit" => sub[p].lang = sub[p].blob.lang

(***************************************************************************)
(* C21.  A recording is discarded once its submission has ended: when the  *)
(* user starts a capture with no invocation in flight, the store holds no  *)
(* recording that was submitted.                                           *)
(***************************************************************************)
C21_EndedRecordingDiscarded ==
    [][((\E k \in Sessions : OrbClickIdle(k))
           /\ \A p \in Submissions : ~InFlight(p)) =>
          ~(audioBlob.present /\ audioBlob.submitted)]_vars

(***************************************************************************)
(* C22.  Duration ticks come only while a capture is active: an interval   *)
(* timer is scheduled only while its recorder records, each tick raises    *)
(* the duration by exactly 1, and once stopRecording has stopped the       *)
(* recorder no interval timer of any startRecording remains scheduled.     *)
(***************************************************************************)
C22_TicksOnlyDuringCapture ==
    /\ [](\A k \in Sessions :
            sess[k].timer = "active" => sess[k].rec = "recording")
    /\ [][\A k \in Sessions :
            TimerTick(k) => duration' = duration + 1]_vars
    /\ [][(OrbClickListening /\ canStopRecording) =>
            \A k \in Sessions : sess'[k].timer # "active"]_vars

(***************************************************************************)
(* C23.  The level meter does not influence the pipeline: a sample step of *)
(* the meter changes the audio level (and the frame id it keeps) and       *)
(* nothing else, and whether a step of an invocation can be taken depends  *)
(* on the invocation alone: it can exactly while the invocation is in      *)
(* flight.                                                                 *)
(***************************************************************************)
C23_LevelStepIsCosmetic ==
    /\ [][\A k \in Sessions :
            updateLevel(k) =>
                UNCHANGED <<voiceState, statusMessage, visitId,
                            processingStage, store, mediaRecorderRef,
                            chunksRef, timerRef, audioContextRef,
                            analyserRef, sess, sub, mounted, meter>>]_vars
    /\ [](\A p \in Submissions :
            (ENABLED PipelineStep(p)) <=> InFlight(p))

\* the meter samples while an invocation is in flight
C23_Witness ==
    /\ audioLevel > 0
    /\ \E k \in Sessions : sess[k].raf = "pending"
    /\ \E p \in Submissions : InFlight(p)

(***************************************************************************)
(* C24.  A new submission stays possible after a failure: whenever the     *)
(* user has recorded and stopped, so that the orb is idle and the store    *)
(* holds a recording not yet submitted, the Submit action is enabled.      *)
(***************************************************************************)
C24_FreshRecordingCanBeSubmitted ==
    (/\ mounted
     /\ voiceState = "idle"
     /\ audioBlob.present
     /\ ~audioBlob.submitted
     /\ \E p \in Submissions : sub[p].pc = "none") =>
        ENABLED (\E p \in Submissions : SubmitClick(p))

(***************************************************************************)
(* C25.  The duration sent to createVisit is the number of ticks of the    *)
(* duration timer during the capture of the recording that is submitted,   *)
(* never the duration left over from an earlier recording.  uploadAndProcess *)
(* sends the duration state as it stands, and only a tick writes it: when  *)
(* the orb click stops a capture, the duration state is the number of      *)
(* ticks of that capture.                                                  *)
(***************************************************************************)
C25_DurationOfCapture ==
    [][(OrbClickListening /\ canStopRecording) =>
          duration = sess[mediaRecorderRef].seconds]_vars

(***************************************************************************)
(* C26.  At most one capture session exists at any time, also when         *)
(* startRecording is triggered again while an earlier call still awaits    *)
(* the microphone: there is never more than one open stream, one active    *)
(* MediaRecorder and one running duration timer, and each of them is the   *)
(* one that stopRecording stops.                                           *)
(***************************************************************************)
C26_OneCaptureSession ==
    \A j, k \in Sessions :
        /\ (sess[j].stream = "live" /\ sess[k].stream = "live") => j = k
        /\ (sess[j].rec = "recording" /\ sess[k].rec = "recording") => j = k
        /\ (sess[j].timer = "active" /\ sess[k].timer = "active") => j = k
        /\ sess[k].rec = "recording" => mediaRecorderRef = k
        /\ sess[k].timer = "active" => timerRef = k

(***************************************************************************)
(* C27.  The onstop event of a finished capture never affects a capture    *)
(* started after it: while a later capture is recording, the late onstop   *)
(* leaves that capture's level meter attached, builds its recording from   *)
(* no chunk of that capture, and publishes no recording.                   *)
(***************************************************************************)
C27_LateStopLeavesNewCapture ==
    [][\A k, j \in Sessions :
          (RecorderStopped(k) /\ j > k /\ sess[j].rec = "recording") =>
              /\ sess'[j] = sess[j]
              /\ meter' = meter
              /\ \A n \in 1..Len(audioBlob'.chunks) :
                     audioBlob'.chunks[n] # j
              /\ audioBlob' = audioBlob]_vars

(***************************************************************************)
(* C28.  The reset deferred on COMPLETED clears only the submission that   *)
(* completed: while its timer is pending no click starts a capture or a    *)
(* submission, and when it fires there is no capture under way, no other   *)
(* submission in flight and no recording in the store but the one that was *)
(* submitted.                                                              *)
(***************************************************************************)
C28_ResetClearsOnlyCompleted ==
    /\ [][(\E p \in Submissions : sub[p].resetTimer = "pending") =>
             /\ \A k \in Sessions : ~OrbClickIdle(k)
             /\ \A q \in Submissions : ~SubmitClick(q)]_vars
    /\ [][\A p \in Submissions :
             ResetTimerFired(p) =>
                 /\ \A k \in Sessions : sess[k].rec # "recording"
                 /\ \A q \in Submissions : ~InFlight(q)
                 /\ audioBlob.present => audioBlob.submitted]_vars

====
